---- MODULE Spec2Model ----
(***************************************************************************)
(* MMC Fortnight Estimation Dashboard (src/app.py).                        *)
(*                                                                         *)
(* build_data_from_excel consolidates the four worksheets into the jobs    *)
(* table and the KPI map; handle_upload writes the six dcc.Store           *)
(* components; update_dashboard renders them under the two filters.        *)
(*                                                                         *)
(* Cells are records [t, n, s]: a number, a string, float NaN, Python None *)
(* or JSON null, so that every pair of cells can be compared.  Frames are  *)
(* sequences of rows, a row is a record over its column names.             *)
(***************************************************************************)
EXTENDS Integers, Sequences, FiniteSets, TLC

\* ---------------------------------------------------------------- bounds
\* job numbers of the modelled workbooks are 1..MaxJob
MaxJob == 2
\* rows of the varied sheet of a workbook
MaxRows == 2
\* numeric cells of a value column are -1..MaxValue
MaxValue == 1
\* entries selected in a multi-select filter dropdown
MaxSel == 1

\* ---------------------------------------------------------------- cells
Num(n) == [t |-> "num", n |-> n, s |-> ""]
Str(s) == [t |-> "str", n |-> 0, s |-> s]
NaN == [t |-> "nan", n |-> 0, s |-> ""]
PyNone == [t |-> "none", n |-> 0, s |-> ""]
JsNull == [t |-> "null", n |-> 0, s |-> ""]

\* pd.isna / the null test of groupby, dropna, sum(skipna), nunique
isna(v) == v.t \in {"nan", "none"}

\* Python truth value, as the `or` chains and the `if x` tests use it:
\* float('nan') is true, None, 0 and "" are false.
Truthy(v) ==
    CASE v.t = "num" -> v.n # 0
      [] v.t = "str" -> v.s # ""
      [] v.t = "nan" -> TRUE
      [] OTHER -> FALSE

\* a or b
PyOr(a, b) == IF Truthy(a) THEN a ELSE b

\* pd.to_numeric(column, errors="coerce") on one cell
to_numeric(v) == IF v.t = "num" THEN v ELSE NaN

\* DataFrame.to_json on one cell: NaN and None are written as null
ToJsonCell(v) == IF isna(v) THEN JsNull ELSE v

\* pd.read_json on one cell: null is read back as a missing value
FromJsonCell(v) == IF v.t = "null" THEN NaN ELSE v

\* ---------------------------------------------------------------- helpers
RECURSIVE SortedSeq(_)
\* sorted(set of integers)
SortedSeq(S) ==
    IF S = {} THEN <<>>
    ELSE LET m == CHOOSE x \in S : \A y \in S : x <= y
         IN <<m>> \o SortedSeq(S \ {m})

RECURSIVE Insert(_, _)
Insert(x, s) ==
    IF s = <<>> THEN <<x>>
    ELSE IF x <= Head(s) THEN <<x>> \o s
    ELSE <<Head(s)>> \o Insert(x, Tail(s))

RECURSIVE SortValues(_)
\* the ascending order np.percentile puts the values in
SortValues(s) == IF s = <<>> THEN <<>> ELSE Insert(Head(s), SortValues(Tail(s)))

RECURSIVE SumSeq(_)
SumSeq(s) == IF s = <<>> THEN 0 ELSE Head(s) + SumSeq(Tail(s))

\* the cells of one column, in row order
Column(df, col) == [i \in 1..Len(df) |-> df[i][col]]

IsNotNa(v) == ~isna(v)

\* the numbers of a column, nulls skipped
NumbersOf(c) == [i \in 1..Len(c) |-> c[i].n]
Numbers(df, col) == NumbersOf(SelectSeq(Column(df, col), IsNotNa))

\* Series.sum(skipna=True); the sum of no values is 0
ColumnSum(df, col) == SumSeq(Numbers(df, col))

\* Series.nunique(): distinct non-null values
nunique(df, col) == Cardinality({df[i][col] : i \in 1..Len(df)} \ {NaN, PyNone})

\* set(frame["job_no"]) for a frame whose job_no holds no nulls
JobSet(df) == {df[i].job_no.n : i \in 1..Len(df)}

\* ---------------------------------------------------------------- state
VARIABLES
    firstFill,        \* what groupby "first" yields for an all-null group of an object column
    contents,         \* upload-data.contents, the file the browser delivered
    store_rfq, store_submitted, store_orders, store_todo, store_jobs, store_kpi,
    upload_status,    \* upload-status.children
    filter_status, filter_risk,
    kpi_row, chart_quotes, chart_orders, chart_status,
    table_data, table_columns, status_options,
    pending_upload,   \* handle_upload is due: its input changed
    pending_render    \* update_dashboard is due: one of its inputs changed

stores == <<store_rfq, store_submitted, store_orders, store_todo, store_jobs, store_kpi>>
filters == <<filter_status, filter_risk>>
outputs == <<kpi_row, chart_quotes, chart_orders, chart_status,
             table_data, table_columns, status_options>>
pending == <<pending_upload, pending_render>>
vars == <<firstFill, contents, stores, upload_status, filters, outputs, pending>>

\* ---------------------------------------------------------------- build_data_from_excel
\* lines 22-31: the value column after pd.to_numeric(errors="coerce")
CoerceQuote(df) == [i \in 1..Len(df) |-> [df[i] EXCEPT !.quote_value = to_numeric(@)]]
CoerceOrder(df) == [i \in 1..Len(df) |-> [df[i] EXCEPT !.order_value = to_numeric(@)]]

\* a column read from a sheet is float64 unless some cell holds a string
ColumnIsFloat(df, col) == \A i \in 1..Len(df) : df[i][col].t # "str"

\* the rows of one group of df.groupby("job_no"); rows with a null job_no are in no group
GroupRows(df, k) == SelectSeq(df, LAMBDA r : r.job_no = Num(k))

\* the keys of df.groupby("job_no"), ascending
GroupKeys(df) == SortedSeq({df[i].job_no.n : i \in {j \in 1..Len(df) : ~isna(df[j].job_no)}})

\* the "first" aggregation: first non-null cell of the group.  An all-null
\* group of a float64 column gives NaN; of an object column it gives
\* firstFill (None or NaN, by the pandas release installed).
FirstOr(c, fill) == IF c # <<>> THEN c[1] ELSE fill
first(df, k, col) ==
    FirstOr(SelectSeq(Column(GroupRows(df, k), col), IsNotNa),
            IF ColumnIsFloat(df, col) THEN NaN ELSE firstFill)

\* the "count" aggregation: non-null cells of the group
count(df, k, col) == Len(SelectSeq(Column(GroupRows(df, k), col), IsNotNa))

\* the value aggregated with "first" instead of "sum"
GroupFirstNumber(df, k, col) == Num(FirstOr(Numbers(GroupRows(df, k), col), 0))

\* the "sum" aggregation: nulls skipped, 0 for a group without a number
GroupSum(df, k, col) == Num(ColumnSum(GroupRows(df, k), col))

AggPlain(df, k) ==
    [job_no |-> Num(k),
     job_description |-> first(df, k, "job_description"),
     project |-> first(df, k, "project"),
     count |-> count(df, k, "job_description")]
AggQuote(df, k) ==
    [job_no |-> Num(k),
     job_description |-> first(df, k, "job_description"),
     project |-> first(df, k, "project"),
     quote_value |-> GroupSum(df, k, "quote_value"),
     count |-> count(df, k, "job_description")]
AggOrder(df, k) ==
    [job_no |-> Num(k),
     job_description |-> first(df, k, "job_description"),
     project |-> first(df, k, "project"),
     order_value |-> GroupSum(df, k, "order_value"),
     count |-> count(df, k, "job_description")]

\* one row for each group, ascending by job_no; value_col is "" for None
AggRows(df, keys, value_col) ==
    [i \in 1..Len(keys) |->
        IF value_col = "quote_value" THEN AggQuote(df, keys[i])
        ELSE IF value_col = "order_value" THEN AggOrder(df, keys[i])
        ELSE AggPlain(df, keys[i])]

aggregate_by_job(df, value_col) == AggRows(df, GroupKeys(df), value_col)

\* all_job_nos with the To-Do sheet forgotten
all_job_nos_without_todo(rfq_jobs, sub_jobs, ord_jobs, todo_jobs) ==
    SortedSeq(JobSet(rfq_jobs) \cup JobSet(sub_jobs) \cup JobSet(ord_jobs))

\* lines 55-60: sorted union of the four aggregates' job numbers
all_job_nos(rfq_jobs, sub_jobs, ord_jobs, todo_jobs) ==
    SortedSeq(JobSet(rfq_jobs) \cup JobSet(sub_jobs) \cup JobSet(ord_jobs) \cup JobSet(todo_jobs))

\* table[table["job_no"] == job_no]
Match(table, k) == SelectSeq(table, LAMBDA r : r.job_no = Num(k))

\* jobs.merge(table[["job_no", col]], on="job_no", how="left"): the cell the
\* left join puts in the job's row (the aggregate holds each job once)
CellOr(match, col, other) == IF match # <<>> THEN match[1][col] ELSE other
MergeLeft(table, k, col) == CellOr(Match(table, k), col, NaN)

pick_field(k, table, field) == CellOr(Match(table, k), field, PyNone)

\* lines 74-87: the `or` chain over Submitted, Orders, RFQ, To-Do
PickChain(k, field, sub_jobs, ord_jobs, rfq_jobs, todo_jobs) ==
    PyOr(pick_field(k, sub_jobs, field),
         PyOr(pick_field(k, ord_jobs, field),
              PyOr(pick_field(k, rfq_jobs, field),
                   pick_field(k, todo_jobs, field))))

\* jobs["job_no"].isin(table["job_no"])
isin(k, table) == k \in JobSet(table)

\* derive_status with the first two rules in the other order
derive_status_quote_first(row) ==
    IF row.has_quote THEN "Submitted Only"
    ELSE IF row.has_order THEN "Order Received"
    ELSE IF row.has_todo THEN "Quote To-Do"
    ELSE IF row.has_rfq THEN "RFQ Only"
    ELSE "Unclassified"

derive_status(row) ==
    IF row.has_order THEN "Order Received"
    ELSE IF row.has_quote THEN "Submitted Only"
    ELSE IF row.has_todo THEN "Quote To-Do"
    ELSE IF row.has_rfq THEN "RFQ Only"
    ELSE "Unclassified"

\* Series.quantile(0.9), linear interpolation, times 10 (so that it is an
\* integer): position 0.9*(n-1) = k + r/10 between the k-th and the next of
\* the sorted non-null values.
Lerp(s, k, r) ==
    10 * s[k + 1] + r * ((IF k + 2 <= Len(s) THEN s[k + 2] ELSE s[k + 1]) - s[k + 1])
Quantile(s) == Lerp(s, (9 * (Len(s) - 1)) \div 10, (9 * (Len(s) - 1)) % 10)
QuantileX10(vals) == Quantile(SortValues(vals))

\* line 109: None when no job has a quote value
Q90Of(vals) ==
    IF vals # <<>> THEN [defined |-> TRUE, x10 |-> QuantileX10(vals)]
    ELSE [defined |-> FALSE, x10 |-> 0]
q90(jobs) == Q90Of(Numbers(jobs, "quote_value"))

\* `if q90`: None and 0.0 are false
Q90Truthy(q) == q.defined /\ q.x10 # 0

\* risk_level without the has_order rule
risk_level_ignoring_orders(row, q) ==
    IF isna(row.quote_value) \/ row.quote_value.n <= 0 THEN "Low"
    ELSE IF Q90Truthy(q) /\ 10 * row.quote_value.n >= q.x10 THEN "High"
    ELSE "Medium"

risk_level(row, q) ==
    IF isna(row.quote_value) \/ row.quote_value.n <= 0 THEN "Low"
    ELSE IF row.has_order THEN "Low"
    ELSE IF Q90Truthy(q) /\ 10 * row.quote_value.n >= q.x10 THEN "High"
    ELSE "Medium"

\* hit_rate without the test of the denominator
hit_rate_unguarded(numerator, denominator) == <<numerator, denominator>>

\* lines 132-139: None for a zero denominator; a ratio is <<numerator, denominator>>
hit_rate(numerator, denominator) ==
    IF denominator # 0 THEN <<numerator, denominator>> ELSE <<>>

kpi_of(rfq_count, submitted_count, order_count, todo_count, total_quote_value, total_order_value) ==
    [rfq_count |-> rfq_count,
     submitted_count |-> submitted_count,
     order_count |-> order_count,
     todo_count |-> todo_count,
     total_quote_value |-> total_quote_value,
     total_order_value |-> total_order_value,
     hit_rate_count |-> hit_rate(order_count, submitted_count),
     hit_rate_value |-> hit_rate(total_order_value, total_quote_value)]

\* lines 122-139
build_kpi(rfq, submitted, orders, todo) ==
    kpi_of(nunique(rfq, "job_no"), nunique(submitted, "job_no"),
           nunique(orders, "job_no"), nunique(todo, "job_no"),
           ColumnSum(submitted, "quote_value"), ColumnSum(orders, "order_value"))

\* lines 61-93: the job's row after the merges, the picks and the flags
merged_row(k, rfq_jobs, sub_jobs, ord_jobs, todo_jobs) ==
    [job_no |-> Num(k),
     quote_value |-> MergeLeft(sub_jobs, k, "quote_value"),
     order_value |-> MergeLeft(ord_jobs, k, "order_value"),
     job_description |-> PickChain(k, "job_description", sub_jobs, ord_jobs, rfq_jobs, todo_jobs),
     project |-> PickChain(k, "project", sub_jobs, ord_jobs, rfq_jobs, todo_jobs),
     has_rfq |-> isin(k, rfq_jobs),
     has_quote |-> isin(k, sub_jobs),
     has_order |-> isin(k, ord_jobs),
     has_todo |-> isin(k, todo_jobs)]

\* lines 106 and 120: the status and risk_level columns
classified_row(row, q) ==
    [job_no |-> row.job_no,
     quote_value |-> row.quote_value,
     order_value |-> row.order_value,
     job_description |-> row.job_description,
     project |-> row.project,
     has_rfq |-> row.has_rfq,
     has_quote |-> row.has_quote,
     has_order |-> row.has_order,
     has_todo |-> row.has_todo,
     status |-> derive_status(row),
     risk_level |-> risk_level(row, q)]

classify(merged, q) == [i \in 1..Len(merged) |-> classified_row(merged[i], q)]
with_q90(merged) == classify(merged, q90(merged))
merge_all(nos, rfq_jobs, sub_jobs, ord_jobs, todo_jobs) ==
    [i \in 1..Len(nos) |-> merged_row(nos[i], rfq_jobs, sub_jobs, ord_jobs, todo_jobs)]

\* lines 55-120: the consolidated jobs frame
build_jobs(rfq_jobs, sub_jobs, ord_jobs, todo_jobs) ==
    with_q90(merge_all(all_job_nos(rfq_jobs, sub_jobs, ord_jobs, todo_jobs),
                       rfq_jobs, sub_jobs, ord_jobs, todo_jobs))

\* lines 50-141: the six values build_data_from_excel returns
consolidate(rfq, submitted, orders, todo) ==
    [rfq |-> rfq, submitted |-> submitted, orders |-> orders, todo |-> todo,
     jobs |-> build_jobs(aggregate_by_job(rfq, ""),
                         aggregate_by_job(submitted, "quote_value"),
                         aggregate_by_job(orders, "order_value"),
                         aggregate_by_job(todo, "")),
     kpi |-> build_kpi(rfq, submitted, orders, todo)]

\* the workbook wb is the four sheets as pd.read_excel returns them
build_data_from_excel(wb) ==
    consolidate(wb.RFQ_Clean, CoerceQuote(wb.Submitted_Clean),
                CoerceOrder(wb.Orders_Clean), wb.Quotes_To_Do_Clean)

\* ---------------------------------------------------------------- handle_upload
CellColumns == {"job_no", "job_description", "project", "quote_value", "order_value"}

\* DataFrame.to_json(orient="split"): the rows, null for every missing cell
to_json(df) ==
    [i \in 1..Len(df) |->
        [c \in DOMAIN df[i] |-> IF c \in CellColumns THEN ToJsonCell(df[i][c]) ELSE df[i][c]]]

\* pd.read_json(orient="split")
read_json(js) ==
    [i \in 1..Len(js) |->
        [c \in DOMAIN js[i] |-> IF c \in CellColumns THEN FromJsonCell(js[i][c]) ELSE js[i][c]]]

\* What a dcc.Store (or a filter value) holds: Python None, or a value.  The
\* value of None is a placeholder of the value's shape.
Some(v) == [is_none |-> FALSE, value |-> v]
NoneFrame == [is_none |-> TRUE, value |-> <<>>]
NoneKpi ==
    [is_none |-> TRUE,
     value |-> [rfq_count |-> 0, submitted_count |-> 0, order_count |-> 0, todo_count |-> 0,
                total_quote_value |-> 0, total_order_value |-> 0,
                hit_rate_count |-> <<>>, hit_rate_value |-> <<>>]]

\* the status line: the text and, for a loaded file, the three counts in it
Message(text, kpi) ==
    [text |-> text, rfqs |-> kpi.rfq_count, quotes |-> kpi.submitted_count,
     orders |-> kpi.order_count]

\* Cleared with an empty KPI map in place of None
ClearedButKpi(text) ==
    [rfq |-> NoneFrame, submitted |-> NoneFrame, orders |-> NoneFrame, todo |-> NoneFrame,
     jobs |-> NoneFrame, kpi |-> Some(NoneKpi.value), status |-> Message(text, NoneKpi.value)]

\* the seven values handle_upload returns when it gives up (lines 346, 355, 362, 393)
Cleared(text) ==
    [rfq |-> NoneFrame, submitted |-> NoneFrame, orders |-> NoneFrame, todo |-> NoneFrame,
     jobs |-> NoneFrame, kpi |-> NoneKpi, status |-> Message(text, NoneKpi.value)]

\* contents is [kind, wb]: kind says how far the upload gets
\*   "none"     no contents (the callback's first run)
\*   "nosplit"  contents.split(",") does not give two parts
\*   "badb64"   base64.b64decode raises
\*   "badxlsx"  pd.ExcelFile raises, "nosheet" pd.read_excel raises,
\*   "nocolumn" groupby/agg raises KeyError
\*   "ok"       wb is read
\* lines 55-80: a workbook without any job number gives an empty jobs frame,
\* on which jobs.apply(..., axis=1) returns a frame and not a column; the
\* assignment of line 74 raises ValueError
NoJobs(wb) ==
    /\ GroupKeys(wb.RFQ_Clean) = <<>> /\ GroupKeys(wb.Submitted_Clean) = <<>>
    /\ GroupKeys(wb.Orders_Clean) = <<>> /\ GroupKeys(wb.Quotes_To_Do_Clean) = <<>>

\* what the try block of lines 364-393 catches
BuildRaises(c) ==
    \/ c.kind \in {"badxlsx", "nosheet", "nocolumn"}
    \/ c.kind = "ok" /\ NoJobs(c.wb)

\* lines 367-389: the frames as JSON, the KPI map and the status line
loaded(b) ==
    [rfq |-> Some(to_json(b.rfq)), submitted |-> Some(to_json(b.submitted)),
     orders |-> Some(to_json(b.orders)), todo |-> Some(to_json(b.todo)),
     jobs |-> Some(to_json(b.jobs)), kpi |-> Some(b.kpi),
     status |-> Message("Loaded file", b.kpi)]

handle_upload(c) ==
    IF c.kind = "none" THEN Cleared("No file uploaded yet.")
    ELSE IF c.kind = "nosplit" THEN Cleared("Upload error: could not parse contents")
    ELSE IF c.kind = "badb64" THEN Cleared("Upload error: could not decode file")
    ELSE IF BuildRaises(c) THEN Cleared("Error reading Excel file")
    ELSE loaded(build_data_from_excel(c.wb))

\* ---------------------------------------------------------------- update_dashboard
\* make_kpi_card: "-" for None, else the value under its format
make_kpi_card(title, value, fmt, id) ==
    [id |-> id, title |-> title, dash |-> value = <<>>, fmt |-> fmt, value |-> value]

kpi_cards(kpi) ==
    << make_kpi_card("RFQs (jobs)", <<kpi.rfq_count>>, "", "kpi-rfqs"),
       make_kpi_card("Quotes submitted (jobs)", <<kpi.submitted_count>>, "", "kpi-quotes"),
       make_kpi_card("Orders received (jobs)", <<kpi.order_count>>, "", "kpi-orders"),
       make_kpi_card("Total quoted value", <<kpi.total_quote_value>>, "currency", "kpi-quote-val"),
       make_kpi_card("Total order value", <<kpi.total_order_value>>, "currency", "kpi-order-val"),
       make_kpi_card("Hit rate (value)", kpi.hit_rate_value, "percent", "kpi-hit-rate") >>

\* FilterOn as `if f is not None`
FilterOnUnlessNone(f) == ~f.is_none

\* `if status_filter:` is false for None and for the empty list
FilterOn(f) == ~f.is_none /\ f.value # <<>>
InList(x, lst) == \E i \in 1..Len(lst) : lst[i] = x

\* frame[frame[col].isin(filter)] under `if filter:`
filter_by(jobs, col, f) ==
    IF FilterOn(f) THEN SelectSeq(jobs, LAMBDA r : InList(r[col], f.value)) ELSE jobs

\* lines 447-451
filtered_jobs(jobs, status_filter, risk_filter) ==
    filter_by(filter_by(jobs, "status", status_filter), "risk_level", risk_filter)

empty_fig == [kind |-> "empty", x |-> <<>>, y |-> <<>>, bars |-> {}]

\* px.bar(filtered.dropna(subset=[col]), x="job_no", y=col)
bar(df, col) ==
    [kind |-> "bar", x |-> [i \in 1..Len(df) |-> df[i].job_no.n],
     y |-> [i \in 1..Len(df) |-> df[i][col].n], bars |-> {}]
bar_by_job(filtered, col) == bar(SelectSeq(filtered, LAMBDA r : ~isna(r[col])), col)

\* filtered["status"].value_counts() as a bar chart; the order of the bars is left out
status_dist(filtered) ==
    [kind |-> "bar", x |-> <<>>, y |-> <<>>,
     bars |-> {<<filtered[j].status,
                 Cardinality({i \in 1..Len(filtered) : filtered[i].status = filtered[j].status})>> :
                   j \in 1..Len(filtered)}]

table_cols ==
    << [name |-> "Job No", id |-> "job_no"],
       [name |-> "Job Description", id |-> "job_description"],
       [name |-> "Project", id |-> "project"],
       [name |-> "Quote Value", id |-> "quote_value"],
       [name |-> "Order Value", id |-> "order_value"],
       [name |-> "Status", id |-> "status"],
       [name |-> "Risk Level", id |-> "risk_level"] >>

\* filtered[table_cols].to_dict("records")
table_records(filtered) ==
    [i \in 1..Len(filtered) |->
        [job_no |-> filtered[i].job_no,
         job_description |-> filtered[i].job_description,
         project |-> filtered[i].project,
         quote_value |-> filtered[i].quote_value,
         order_value |-> filtered[i].order_value,
         status |-> filtered[i].status,
         risk_level |-> filtered[i].risk_level]]

\* the five labels in the order sorted() puts them
SortedStatuses ==
    <<"Order Received", "Quote To-Do", "RFQ Only", "Submitted Only", "Unclassified">>

\* sorted(jobs["status"].dropna().unique())
status_options_of(jobs) ==
    SelectSeq(SortedStatuses, LAMBDA st : \E i \in 1..Len(jobs) : jobs[i].status = st)

no_data ==
    [kpi_row |-> <<>>, chart_quotes |-> empty_fig, chart_orders |-> empty_fig,
     chart_status |-> empty_fig, table_data |-> <<>>, table_columns |-> <<>>,
     status_options |-> <<>>]

\* lines 453-515
render(jobs, filtered, kpi) ==
    [kpi_row |-> kpi_cards(kpi),
     chart_quotes |-> bar_by_job(filtered, "quote_value"),
     chart_orders |-> bar_by_job(filtered, "order_value"),
     chart_status |-> status_dist(filtered),
     table_data |-> table_records(filtered),
     table_columns |-> table_cols,
     status_options |-> status_options_of(jobs)]

render_filtered(jobs, kpi, status_filter, risk_filter) ==
    render(jobs, filtered_jobs(jobs, status_filter, risk_filter), kpi)

update_dashboard(jobs_json, kpi, status_filter, risk_filter) ==
    IF jobs_json.is_none \/ kpi.is_none THEN no_data
    ELSE render_filtered(read_json(jobs_json.value), kpi.value, status_filter, risk_filter)

\* ---------------------------------------------------------------- inputs
Jobs == 1..MaxJob
JobCells == {NaN} \cup {Num(j) : j \in Jobs}
\* a cell of a value column as read from the sheet: text, or a number
RawValues == {Str("n/a")} \cup {Num(v) : v \in (-1)..MaxValue}

PlainRow(job, text) == [job_no |-> job, job_description |-> text, project |-> text]
QuoteRow(job, text, v) ==
    [job_no |-> job, job_description |-> text, project |-> text, quote_value |-> v]
OrderRow(job, text, v) ==
    [job_no |-> job, job_description |-> text, project |-> text, order_value |-> v]

Workbook(rfq, submitted, orders, todo) ==
    [RFQ_Clean |-> rfq, Submitted_Clean |-> submitted,
     Orders_Clean |-> orders, Quotes_To_Do_Clean |-> todo]

\* sheets with one row for each job of S, ascending
PlainSheet(S, tag) == LET k == SortedSeq(S) IN [i \in 1..Len(k) |-> PlainRow(Num(k[i]), Str(tag))]
\* the quote of job j is j
QuoteSheet(S) == LET k == SortedSeq(S) IN [i \in 1..Len(k) |-> QuoteRow(Num(k[i]), Str("sub"), Num(k[i]))]
OrderSheet(S) == LET k == SortedSeq(S) IN [i \in 1..Len(k) |-> OrderRow(Num(k[i]), Str("ord"), Num(1))]

MemberWb(R, S, O, T) ==
    Workbook(PlainSheet(R, "rfq"), QuoteSheet(S), OrderSheet(O), PlainSheet(T, "todo"))

\* sequences of at most n elements of S
SeqUpTo(S, n) == UNION {[1..m -> S] : m \in 0..n}

\* (1) every combination of the jobs' membership in the four sheets
WbMembers == {MemberWb(R, S, O, T) : R \in SUBSET Jobs, S \in SUBSET Jobs,
                                      O \in SUBSET Jobs, T \in SUBSET Jobs}
\* (2) Submitted with up to MaxRows rows of any job cell and any value cell
QuoteRows == {QuoteRow(j, Str("sub"), v) : j \in JobCells, v \in RawValues}
WbQuotes == {Workbook(<<>>, sub, OrderSheet(O), <<>>) :
                 sub \in SeqUpTo(QuoteRows, MaxRows), O \in {{}, {1}}}
\* (3) Orders likewise
OrderRows == {OrderRow(j, Str("ord"), v) : j \in JobCells, v \in RawValues}
WbOrders == {Workbook(<<>>, QuoteSheet(S), ord, <<>>) :
                 ord \in SeqUpTo(OrderRows, MaxRows), S \in {{}, {1}}}
\* (4) job 1 with a missing, an empty or a present description and project
\*     in each sheet, alone or beside a second row
TextSheets(tag) ==
    { <<>>,
      <<PlainRow(Num(1), NaN)>>,
      <<PlainRow(Num(1), Str(""))>>,
      <<PlainRow(Num(1), Str(tag))>>,
      <<PlainRow(Num(1), NaN), PlainRow(Num(1), Str(tag))>>,
      <<PlainRow(Num(1), NaN), PlainRow(Num(2), Str(tag))>> }
WithQuote(sheet) ==
    [i \in 1..Len(sheet) |->
        QuoteRow(sheet[i].job_no, sheet[i].job_description, Num(1))]
WithOrder(sheet) ==
    [i \in 1..Len(sheet) |->
        OrderRow(sheet[i].job_no, sheet[i].job_description, Num(1))]
WbTexts == {Workbook(r, WithQuote(sb), WithOrder(o), t) :
                r \in TextSheets("rfq"), sb \in TextSheets("sub"),
                o \in TextSheets("ord"), t \in TextSheets("todo")}

\* (5) eleven quoted jobs, the fewest for which 0.9*(n-1) is a whole position
\*     above the first: jobs 1..10 quoted j*step, job 11 quoted by any value cell
LadderSheet(step, last) ==
    [j \in 1..11 |-> QuoteRow(Num(j), Str("sub"), IF j <= 10 THEN Num(j * step) ELSE last)]
WbLadders == {Workbook(<<>>, LadderSheet(step, last), <<>>, <<>>) :
                 step \in {0, 1}, last \in RawValues}

Workbooks == WbMembers \cup WbQuotes \cup WbOrders \cup WbTexts \cup WbLadders

File(kind, wb) == [kind |-> kind, wb |-> wb]
NoWorkbook == Workbook(<<>>, <<>>, <<>>, <<>>)
NoContents == File("none", NoWorkbook)
BadFiles == {File(k, NoWorkbook) : k \in {"nosplit", "badb64", "badxlsx", "nosheet", "nocolumn"}}

\* the files dropped on the running dashboard
DroppedFiles ==
    BadFiles \cup {File("ok", NoWorkbook)}
        \cup {File("ok", MemberWb(Jobs, S, O, {})) : S \in {Jobs, {1}}, O \in {{}, {1}}}

Statuses == {SortedStatuses[i] : i \in 1..Len(SortedStatuses)}
RiskLevels == <<"High", "Medium", "Low">>

\* what a multi-select dropdown can hold: None, or up to MaxSel of its options
Selections(options) ==
    {[is_none |-> TRUE, value |-> <<>>]} \cup
    {Some(SelectSeq(options, LAMBDA o : o \in S)) :
        S \in {T \in SUBSET {options[i] : i \in 1..Len(options)} : Cardinality(T) <= MaxSel}}

\* ---------------------------------------------------------------- the dashboard
unset_fig == [kind |-> "unset", x |-> <<>>, y |-> <<>>, bars |-> {}]

\* the layout (lines 181-325) before any callback has run
Layout ==
    /\ store_rfq = NoneFrame /\ store_submitted = NoneFrame /\ store_orders = NoneFrame
    /\ store_todo = NoneFrame /\ store_jobs = NoneFrame /\ store_kpi = NoneKpi
    /\ upload_status = Message("", NoneKpi.value)
    /\ filter_status = [is_none |-> TRUE, value |-> <<>>]
    /\ filter_risk = [is_none |-> TRUE, value |-> <<>>]
    /\ kpi_row = <<>>
    /\ chart_quotes = unset_fig /\ chart_orders = unset_fig /\ chart_status = unset_fig
    /\ table_data = <<>> /\ table_columns = <<>> /\ status_options = <<>>
    /\ pending_upload = TRUE
    /\ pending_render = FALSE

Init ==
    /\ firstFill \in {PyNone, NaN}
    /\ contents = NoContents
    /\ Layout

Idle == ~pending_upload /\ ~pending_render

\* the user drops a file on upload-data
DropFile(c) ==
    /\ Idle
    /\ contents' = c
    /\ pending_upload' = TRUE
    /\ UNCHANGED <<firstFill, stores, upload_status, filters, outputs, pending_render>>

\* WriteStores with store-kpi missing from the callback's outputs
WriteStoresButKpi(out) ==
    /\ store_rfq' = out.rfq
    /\ store_submitted' = out.submitted
    /\ store_orders' = out.orders
    /\ store_todo' = out.todo
    /\ store_jobs' = out.jobs
    /\ store_kpi' = store_kpi
    /\ upload_status' = out.status

WriteStores(out) ==
    /\ store_rfq' = out.rfq
    /\ store_submitted' = out.submitted
    /\ store_orders' = out.orders
    /\ store_todo' = out.todo
    /\ store_jobs' = out.jobs
    /\ store_kpi' = out.kpi
    /\ upload_status' = out.status

\* the callback of lines 330-393: all seven outputs are written together
HandleUpload ==
    /\ pending_upload
    /\ WriteStores(handle_upload(contents))
    /\ pending_upload' = FALSE
    /\ pending_render' = TRUE
    /\ UNCHANGED <<firstFill, contents, filters, outputs>>

\* the user changes the selection of filter-status, among the options the
\* dropdown offers (lines 501-505)
SetStatusFilter(v) ==
    /\ Idle
    /\ v # filter_status
    /\ filter_status' = v
    /\ pending_render' = TRUE
    /\ UNCHANGED <<firstFill, contents, stores, upload_status, filter_risk, outputs, pending_upload>>

\* the user changes the selection of filter-risk
SetRiskFilter(v) ==
    /\ Idle
    /\ v # filter_risk
    /\ filter_risk' = v
    /\ pending_render' = TRUE
    /\ UNCHANGED <<firstFill, contents, stores, upload_status, filter_status, outputs, pending_upload>>

WriteOutputs(out) ==
    /\ kpi_row' = out.kpi_row
    /\ chart_quotes' = out.chart_quotes
    /\ chart_orders' = out.chart_orders
    /\ chart_status' = out.chart_status
    /\ table_data' = out.table_data
    /\ table_columns' = out.table_columns
    /\ status_options' = out.status_options

\* the callback of lines 396-515; it waits for handle_upload, whose outputs it reads
UpdateDashboard ==
    /\ ~pending_upload
    /\ pending_render
    /\ WriteOutputs(update_dashboard(store_jobs, store_kpi, filter_status, filter_risk))
    /\ pending_render' = FALSE
    /\ UNCHANGED <<firstFill, contents, stores, upload_status, filters, pending_upload>>

Next ==
    \/ \E c \in DroppedFiles : DropFile(c)
    \/ HandleUpload
    \/ \E v \in Selections(status_options) : SetStatusFilter(v)
    \/ \E v \in Selections(RiskLevels) : SetRiskFilter(v)
    \/ UpdateDashboard

Spec == Init /\ [][Next]_vars

\* One upload of each workbook of the families (1)-(5), consolidated and rendered.
InitBuild ==
    /\ firstFill \in {PyNone, NaN}
    /\ contents \in {File("ok", wb) : wb \in Workbooks}
    /\ Layout

NextBuild == HandleUpload \/ UpdateDashboard

SpecBuild == InitBuild /\ [][NextBuild]_vars

\* ================================================================ properties
\* What the properties read: the uploaded workbook and the stores written from it.
Uploaded == contents.wb
JobRows == store_jobs.value
RowIndex == 1..Len(JobRows)

\* the job numbers that occur in a sheet
IdsIn(sheet) == {sheet[i].job_no.n : i \in {j \in 1..Len(sheet) : sheet[j].job_no.t = "num"}}
\* the rows of a sheet that carry job k
RowsOf(sheet, k) == {i \in 1..Len(sheet) : sheet[i].job_no = Num(k)}

RECURSIVE NumericTotal(_, _, _)
\* the total of the numeric cells of column col over the rows I of a sheet
NumericTotal(sheet, col, I) ==
    IF I = {} THEN 0
    ELSE LET i == CHOOSE j \in I : TRUE
         IN (IF sheet[i][col].t = "num" THEN sheet[i][col].n ELSE 0)
            + NumericTotal(sheet, col, I \ {i})

AllIds ==
    IdsIn(Uploaded.RFQ_Clean) \cup IdsIn(Uploaded.Submitted_Clean)
        \cup IdsIn(Uploaded.Orders_Clean) \cup IdsIn(Uploaded.Quotes_To_Do_Clean)

\* handle_upload has consolidated a workbook that holds at least one job
Loaded == ~pending_upload /\ contents.kind = "ok" /\ AllIds # {}
\* handle_upload has run on a file and given up
Failed == ~pending_upload /\ contents.kind # "none" /\ ~Loaded

\* C1: the job_no values of the jobs table are the union of the job ids of the
\* four sheets, each in exactly one row, also for an id that occurs in several
\* rows or several sheets.
C1_JobsAreTheUnion ==
    Loaded =>
        /\ ~store_jobs.is_none
        /\ {JobRows[i].job_no.n : i \in RowIndex} = AllIds
        /\ \A i, j \in RowIndex : JobRows[i].job_no = JobRows[j].job_no => i = j
        /\ \A i \in RowIndex : JobRows[i].job_no.t = "num"

\* job 1 in two rows of Submitted and in Orders as well, once in the output
C1_Witness ==
    /\ Loaded
    /\ Cardinality(RowsOf(Uploaded.Submitted_Clean, 1)) = 2
    /\ RowsOf(Uploaded.Orders_Clean, 1) # {}
    /\ Cardinality({i \in RowIndex : JobRows[i].job_no = Num(1)}) = 1

\* the label the priority rule gives a job found in the sheets as stated
StatusByPriority(inOrders, inSubmitted, inTodo, inRfq) ==
    CASE inOrders -> "Order Received"
      [] ~inOrders /\ inSubmitted -> "Submitted Only"
      [] ~inOrders /\ ~inSubmitted /\ inTodo -> "Quote To-Do"
      [] ~inOrders /\ ~inSubmitted /\ ~inTodo /\ inRfq -> "RFQ Only"
      [] OTHER -> "Unclassified"

\* C2: the four flags say which sheets hold the job, and the status is the
\* label of the first rule that matches: order, quote, to-do, rfq, else
\* Unclassified.
C2_FlagsAndStatus ==
    Loaded =>
        \A i \in RowIndex :
            LET row == JobRows[i]
                k == row.job_no.n
            IN /\ row.has_rfq = (k \in IdsIn(Uploaded.RFQ_Clean))
               /\ row.has_quote = (k \in IdsIn(Uploaded.Submitted_Clean))
               /\ row.has_order = (k \in IdsIn(Uploaded.Orders_Clean))
               /\ row.has_todo = (k \in IdsIn(Uploaded.Quotes_To_Do_Clean))
               /\ row.status = StatusByPriority(row.has_order, row.has_quote,
                                                row.has_todo, row.has_rfq)

\* a job in all four sheets beside a job that is only in RFQ and To-Do
C2_Witness ==
    /\ Loaded
    /\ \E i, j \in RowIndex :
          /\ JobRows[i].has_rfq /\ JobRows[i].has_quote
          /\ JobRows[i].has_order /\ JobRows[i].has_todo
          /\ JobRows[i].status = "Order Received"
          /\ JobRows[j].has_rfq /\ JobRows[j].has_todo
          /\ JobRows[j].status = "Quote To-Do"

\* C3: a job whose quote_value is null or <= 0, or that has an order, is Low,
\* whatever q90 and the other jobs' quotes are.
C3_LowWithoutExposure ==
    Loaded =>
        \A i \in RowIndex :
            (\/ JobRows[i].quote_value.t = "null"
             \/ JobRows[i].quote_value.n <= 0
             \/ JobRows[i].has_order) => JobRows[i].risk_level = "Low"

\* an ordered job with the largest quote beside a High job, and a job whose quote is 0
C3_Witness ==
    /\ Loaded
    /\ \E i, j \in RowIndex :
          /\ JobRows[i].has_order /\ JobRows[i].quote_value.t = "num"
          /\ JobRows[j].risk_level = "High"
          /\ JobRows[i].quote_value.n >= JobRows[j].quote_value.n
          /\ JobRows[i].risk_level = "Low"

\* the quote values that are non-null and positive, in row order
PositiveQuotes == NumbersOf(SelectSeq([i \in RowIndex |-> JobRows[i].quote_value],
                                      LAMBDA v : v.t = "num" /\ v.n > 0))

\* C4 (as claimed): with q90 the 90th percentile over exactly the jobs whose
\* quote_value is non-null and positive, a positive-quote job without an
\* order is High iff its quote is >= q90 and Medium otherwise; without any
\* positive quote q90 is undefined and every job is Low.
C4_Q90OverPositiveQuotes ==
    Loaded =>
        /\ \A i \in RowIndex :
              (JobRows[i].quote_value.t = "num" /\ JobRows[i].quote_value.n > 0
                  /\ ~JobRows[i].has_order) =>
                 /\ JobRows[i].risk_level \in {"High", "Medium"}
                 /\ JobRows[i].risk_level = "High"
                       <=> 10 * JobRows[i].quote_value.n >= Q90Of(PositiveQuotes).x10
        /\ PositiveQuotes = <<>> => \A i \in RowIndex : JobRows[i].risk_level = "Low"

\* C5: quote_value is the sum of the numeric quote cells of the job's
\* Submitted rows and null iff the job has no Submitted row; order_value
\* likewise over Orders.
C5_ValuesAreRowSums ==
    Loaded =>
        \A i \in RowIndex :
            LET k == JobRows[i].job_no.n
                sub == Uploaded.Submitted_Clean
                ord == Uploaded.Orders_Clean
            IN /\ JobRows[i].quote_value =
                    IF RowsOf(sub, k) = {} THEN JsNull
                    ELSE Num(NumericTotal(sub, "quote_value", RowsOf(sub, k)))
               /\ JobRows[i].order_value =
                    IF RowsOf(ord, k) = {} THEN JsNull
                    ELSE Num(NumericTotal(ord, "order_value", RowsOf(ord, k)))

\* the spec's example in small: job 1 quoted in two Submitted rows (1 and 1)
\* and absent from Orders
C5_Witness ==
    /\ Loaded
    /\ Cardinality(RowsOf(Uploaded.Submitted_Clean, 1)) = 2
    /\ \E i \in RowIndex :
          /\ JobRows[i].job_no = Num(1)
          /\ JobRows[i].quote_value = Num(2)
          /\ JobRows[i].order_value = JsNull
          /\ ~JobRows[i].has_order
          /\ JobRows[i].status = "Submitted Only"

\* the cell a sheet offers for a job's field: the first non-null one of its rows
Offered(sheet, k, field) ==
    LET I == {i \in RowsOf(sheet, k) : sheet[i][field].t = "str"}
    IN IF I = {} THEN JsNull ELSE sheet[CHOOSE i \in I : \A j \in I : i <= j][field]
Usable(v) == v.t = "str" /\ v.s # ""

\* the first usable cell in the order Submitted, Orders, RFQ, To-Do
Resolved(k, field) ==
    LET s == Offered(Uploaded.Submitted_Clean, k, field)
        o == Offered(Uploaded.Orders_Clean, k, field)
        r == Offered(Uploaded.RFQ_Clean, k, field)
        t == Offered(Uploaded.Quotes_To_Do_Clean, k, field)
    IN IF Usable(s) THEN s ELSE IF Usable(o) THEN o ELSE IF Usable(r) THEN r ELSE t

\* C6 (as claimed): job_description and project are the first non-null,
\* non-empty value in the order Submitted, Orders, RFQ, To-Do; a sheet that
\* holds the job with a null or empty value is skipped; the field is null
\* only if no sheet has a value.
C6_FirstUsableField ==
    Loaded =>
        \A i \in RowIndex :
            LET k == JobRows[i].job_no.n
            IN /\ Usable(Resolved(k, "job_description"))
                     => JobRows[i].job_description = Resolved(k, "job_description")
               /\ Usable(Resolved(k, "project")) => JobRows[i].project = Resolved(k, "project")

\* the distinct job ids of a sheet and the total of a value column over all its rows
JobCount(sheet) == Cardinality(IdsIn(sheet))
SheetTotal(sheet, col) == NumericTotal(sheet, col, 1..Len(sheet))

\* C7: the KPI map is computed from the raw sheets; hit_rate_count is
\* order_count / submitted_count and null when submitted_count is 0;
\* hit_rate_value is total_order_value / total_quote_value and null when
\* total_quote_value is 0; counts are distinct ids, totals run over all rows.
C7_KpiAndHitRates ==
    Loaded =>
        LET kpi == store_kpi.value
        IN /\ ~store_kpi.is_none
           /\ kpi.rfq_count = JobCount(Uploaded.RFQ_Clean)
           /\ kpi.submitted_count = JobCount(Uploaded.Submitted_Clean)
           /\ kpi.order_count = JobCount(Uploaded.Orders_Clean)
           /\ kpi.todo_count = JobCount(Uploaded.Quotes_To_Do_Clean)
           /\ kpi.total_quote_value = SheetTotal(Uploaded.Submitted_Clean, "quote_value")
           /\ kpi.total_order_value = SheetTotal(Uploaded.Orders_Clean, "order_value")
           /\ kpi.hit_rate_count =
                 IF kpi.submitted_count = 0 THEN <<>>
                 ELSE <<kpi.order_count, kpi.submitted_count>>
           /\ kpi.hit_rate_value =
                 IF kpi.total_quote_value = 0 THEN <<>>
                 ELSE <<kpi.total_order_value, kpi.total_quote_value>>

\* two Submitted rows of one job whose quotes cancel: one job counted, the
\* row total 0, the value ratio null and the count ratio defined
C7_Witness ==
    /\ Loaded
    /\ Len(Uploaded.Submitted_Clean) = 2
    /\ Uploaded.Submitted_Clean[1].quote_value = Num(1)
    /\ Uploaded.Submitted_Clean[2].quote_value = Num(-1)
    /\ store_kpi.value.submitted_count = 1
    /\ store_kpi.value.order_count = 1
    /\ store_kpi.value.total_quote_value = 0
    /\ store_kpi.value.hit_rate_value = <<>>
    /\ store_kpi.value.hit_rate_count = <<1, 1>>

AllNone ==
    /\ store_rfq.is_none /\ store_submitted.is_none /\ store_orders.is_none
    /\ store_todo.is_none /\ store_jobs.is_none /\ store_kpi.is_none
NoneIsNone == ~(\/ store_rfq.is_none \/ store_submitted.is_none \/ store_orders.is_none
                \/ store_todo.is_none \/ store_jobs.is_none \/ store_kpi.is_none)
NoDataShown ==
    /\ kpi_row = <<>>
    /\ chart_quotes.kind = "empty" /\ chart_orders.kind = "empty" /\ chart_status.kind = "empty"
    /\ table_data = <<>> /\ table_columns = <<>>
    /\ status_options = <<>>
FailureTexts ==
    {"Upload error: could not parse contents", "Upload error: could not decode file",
     "Error reading Excel file"}

\* C8: an upload that fails at any step leaves all six stores None together
\* with one message that names the failure, and update_dashboard then shows
\* the no-data state, not the data of an earlier upload.
C8_FailureClearsEverything ==
    Failed =>
        /\ AllNone
        /\ upload_status.text \in FailureTexts
        /\ ~pending_render => NoDataShown

\* a failed upload has cleared the stores while the dashboard still shows
\* the cards and rows of the upload before it
C8_Witness ==
    /\ Failed /\ pending_render
    /\ contents.kind = "nosheet"
    /\ AllNone
    /\ kpi_row # <<>> /\ table_data # <<>>

\* the six stores as handle_upload returns them for file c
StoresFrom(c) ==
    LET out == handle_upload(c)
    IN <<out.rfq, out.submitted, out.orders, out.todo, out.jobs, out.kpi>>

\* C9: after any sequence of uploads the six stores are all None or all
\* computed from one and the same upload, the most recent one handled; no
\* state pairs a jobs table of one upload with stores or a KPI map of another.
C9_StoresFromOneUpload ==
    /\ AllNone \/ NoneIsNone
    /\ \E c \in DroppedFiles \cup {NoContents} : stores = StoresFrom(c)
    /\ ~pending_upload => /\ stores = StoresFrom(contents)
                          /\ Loaded <=> NoneIsNone

\* a second workbook has replaced the stores while the dashboard still shows
\* the KPI cards of a different earlier workbook
C9_Witness ==
    /\ Loaded /\ pending_render
    /\ NoneIsNone
    /\ kpi_row # <<>>
    /\ kpi_row # kpi_cards(store_kpi.value)

\* whether a job passes a filter: an unset or empty filter passes every job
Passes(x, f) == f.is_none \/ f.value = <<>> \/ x \in {f.value[i] : i \in 1..Len(f.value)}
Kept == {i \in RowIndex : /\ Passes(JobRows[i].status, filter_status)
                          /\ Passes(JobRows[i].risk_level, filter_risk)}

\* C10: with data loaded, whatever filters were chosen and in whatever
\* order, the risk table holds exactly the jobs whose status and risk_level
\* pass the two filters, in the jobs table's order; the status options and
\* the KPI cards are those of the unfiltered data.
C10_TableIsTheFilteredJobs ==
    (~pending_upload /\ ~pending_render /\ NoneIsNone) =>
        /\ [i \in 1..Len(table_data) |-> table_data[i].job_no.n]
              = SortedSeq({JobRows[i].job_no.n : i \in Kept})
        /\ \A i \in 1..Len(table_data) : \E j \in Kept :
              /\ table_data[i].job_no = JobRows[j].job_no
              /\ table_data[i].status = JobRows[j].status
              /\ table_data[i].risk_level = JobRows[j].risk_level
        /\ {status_options[i] : i \in 1..Len(status_options)}
              = {JobRows[i].status : i \in RowIndex}
        /\ Len(status_options) = Cardinality({JobRows[i].status : i \in RowIndex})
        /\ Len(kpi_row) = 6
        /\ <<kpi_row[1].value, kpi_row[2].value, kpi_row[3].value,
             kpi_row[4].value, kpi_row[5].value, kpi_row[6].value>>
              = <<<<store_kpi.value.rfq_count>>, <<store_kpi.value.submitted_count>>,
                  <<store_kpi.value.order_count>>, <<store_kpi.value.total_quote_value>>,
                  <<store_kpi.value.total_order_value>>, store_kpi.value.hit_rate_value>>

\* both filters set, one job shown and one hidden, the hidden one's status
\* still among the options
C10_Witness ==
    /\ ~pending_upload /\ ~pending_render /\ NoneIsNone
    /\ filter_status = Some(<<"Submitted Only">>)
    /\ filter_risk = Some(<<"High">>)
    /\ Len(table_data) = 1
    /\ Len(JobRows) = 2
    /\ Len(status_options) = 2

====
